---- MODULE Spec2Model ----
(***************************************************************************)
(* A model of the comment scanner of json_with_comments.py:                *)
(* replace_json_comments_by_whitespace, a table-driven finite state        *)
(* machine that replaces // and block comments by spaces.                  *)
(*                                                                         *)
(* A string is a sequence of one-character strings.  One behaviour is one  *)
(* call: Init fixes the argument, Step is one iteration of the scan loop,  *)
(* Return and Raise are the two outcomes of the code after the loop.       *)
(*                                                                         *)
(* Spec is that one call.  SpecTwice calls the function again on its own   *)
(* result.  SpecParse is parse_json_with_comments: the call, then          *)
(* json.loads on what it returned.  SpecTest is the call of the            *)
(* repository's test.  SpecConcurrent is two calls at the same time.       *)
(* SpecBoth runs the function and the variant of json_with_comments_fsm.py *)
(* on the same input.  SpecVariantRead is the variant's                    *)
(* read_json_with_comments on a file with the input as its text.           *)
(* SpecTerminates is the call run to its end: the function is synchronous  *)
(* and nothing in it waits, so a step that can be taken is taken.          *)
(***************************************************************************)
EXTENDS Naturals, Sequences, FiniteSets, TLC

VARIABLES
    input_string,   \* the argument of the call
    pos,            \* number of characters of input_string the loop has consumed
    state,          \* the FSM state variable of the call
    output,         \* the list of emitted characters
    history,        \* state after each consumed character (history[i] follows input_string[i])
    pc,             \* "scan" in the loop, "returned" / "raised" after the call ended
    result,         \* <<"none">>, <<"value", string>> or <<"error", message>>
    call,           \* 1 in the first call, 2 in a call on the first call's result
    previous,       \* <<argument, result>> of the first call once a second one started
    parser_calls,   \* the arguments json.loads was called with, in order
    caller,         \* what parse_json_with_comments gave its caller: <<"none">>,
                    \* <<"value", v>> or <<"error", type, message, cause>>
    other_input,    \* a second invocation, running at the same time: its argument,
    other_pos,      \*   the number of characters it has consumed,
    other_state,    \*   its local variable state,
    other_output,   \*   its local list output,
    other_pc,       \*   "idle" (there is none), "scan", "returned" or "raised",
    other_result,   \*   and its result
    v_pos,          \* remove_comments_from_json_with_comments of
    v_state,        \*   json_with_comments_fsm.py on the same input: the number
    v_output,       \*   of characters it has consumed, its state, its output,
    v_history,      \*   its state after each character consumed,
    v_pc,           \*   "idle" (it is not called), "scan", "returned" or "raised",
    v_result,       \*   and its result
    v_parser_calls, \* the arguments the variant's wrappers called json.loads with
    v_caller        \* what the variant's read_json_with_comments gave its caller:
                    \* <<"none">>, <<"value", v>> or <<"error", type, message>>

\* The variables of the call itself.
scan_vars == <<input_string, pos, state, output, history, pc, result>>

\* The variables of what surrounds the call.
other_vars ==
    <<other_input, other_pos, other_state, other_output, other_pc, other_result>>

variant_vars ==
    <<v_pos, v_state, v_output, v_history, v_pc, v_result, v_parser_calls, v_caller>>

ext_vars == <<call, previous, parser_calls, caller, other_vars, variant_vars>>

vars == <<scan_vars, ext_vars>>

-----------------------------------------------------------------------------
(* Bounds of the model. *)

\* Longest input over the full alphabet.
MaxLen == 5

\* One representative per character class, and two OTHER characters: a
\* letter and the space (the character that comments are replaced by).
Alphabet == {"/", "\\", "\"", "\r", "\n", "*", "x", " "}

RECURSIVE StringsUpTo(_, _)
StringsUpTo(S, n) ==
    IF n = 0 THEN {<<>>}
    ELSE LET shorter == StringsUpTo(S, n - 1)
         IN  shorter \cup {Append(s, c) : s \in shorter, c \in S}

\* The examples the specification and the test give, character by character.
Str_LineComment  == <<"{", "\"", "a", "\"", ":", "1", "}", "/", "/", "c", "\n",
                      "{", "\"", "b", "\"", ":", "2", "}">>
Str_BlockLines   == <<"/", "*", "\n", "x", "\n", "*", "/">>
Str_Unterminated == <<"{", "\"", "a", "\"", ":", "1", "}", " ", "/", "*", " ", "o", "o", "p", "s">>
Str_NotAComment  == <<"{", "\"", "a", "\"", ":", " ", "\"", "/", "/", " ", "n", "o", "t", "\"", "}">>
Str_EscapedQuote == <<"\"", "a", "\\", "\"", "b", "\"">>
Str_EscapedThenSlashes == <<"\"", "\\", "\"", "/", "/", "\"">>
Str_DoubledBackslash == <<"\"", "\\", "\\", "\"", "/", "/", "x">>
Str_StringWithBlockOpen == <<"\"", "a", "b", "c", " ", "/", "*", " ">>
Str_TrailingSlash == <<"{", "\"", "a", "\"", ":", "1", "}", "/">>
\* A line break in each of the seven scan states.
Str_LineBreaks   == <<"\n", "/", "\n", "\"", "\r", "\\", "\n", "\"", "/", "/", "\r", "\n",
                      "/", "*", "\r", "*", "\n", "*", "/">>

\* /* /* */ */
Str_NestedBlock  == <<"/", "*", " ", "/", "*", " ", "*", "/", " ", "*", "/">>
\* //a\rb\nc
Str_BareCR       == <<"/", "/", "a", "\r", "b", "\n", "c">>
\* //"/*\ and a newline, then /*"//*/x
Str_InertContent == <<"/", "/", "\"", "/", "*", "\\", "\n",
                      "/", "*", "\"", "/", "/", "*", "/", "x">>
\* {"a":1}/
Str_ObjectThenSlash == <<"{", "\"", "a", "\"", ":", "1", "}", "/">>

Examples ==
    { Str_LineComment, Str_BlockLines, Str_Unterminated, Str_NotAComment,
      Str_EscapedQuote, Str_EscapedThenSlashes, Str_DoubledBackslash,
      Str_StringWithBlockOpen, Str_TrailingSlash, Str_LineBreaks,
      Str_NestedBlock, Str_BareCR, Str_InertContent, Str_ObjectThenSlash }

Inputs == StringsUpTo(Alphabet, MaxLen) \cup Examples

\* Longest input over the full alphabet of a call that something surrounds
\* (a second call, the wrapper).
MaxLenShort == 4

InputsShort == StringsUpTo(Alphabet, MaxLenShort) \cup Examples

-----------------------------------------------------------------------------
(* The enumerations. *)

FsmState == {"DEFAULT", "COMMENT_INTRO", "LINE_COMMENT", "BLOCK_COMMENT",
             "BLOCK_COMMENT_STAR", "STRING", "STRING_BACKSLASH"}

FsmAction == {"EMIT_NOTHING", "EMIT_CURRENT", "EMIT_FSLASH_THEN_CURRENT",
              "EMIT_ONE_SPACE", "EMIT_TWO_SPACES"}

CharacterClass == {"FSLASH", "BSLASH", "QUOTE", "CR", "NL", "STAR", "OTHER"}

\* The transition table: (state, character_class) -> (action, next_state).
fsm_definition ==
       (<<"DEFAULT",            "FSLASH">> :> <<"EMIT_NOTHING",             "COMMENT_INTRO">>)
    @@ (<<"DEFAULT",            "QUOTE">>  :> <<"EMIT_CURRENT",             "STRING">>)
    @@ (<<"DEFAULT",            "OTHER">>  :> <<"EMIT_CURRENT",             "DEFAULT">>)

    @@ (<<"COMMENT_INTRO",      "FSLASH">> :> <<"EMIT_TWO_SPACES",          "LINE_COMMENT">>)
    @@ (<<"COMMENT_INTRO",      "STAR">>   :> <<"EMIT_TWO_SPACES",          "BLOCK_COMMENT">>)
    @@ (<<"COMMENT_INTRO",      "OTHER">>  :> <<"EMIT_FSLASH_THEN_CURRENT", "DEFAULT">>)

    @@ (<<"LINE_COMMENT",       "CR">>     :> <<"EMIT_CURRENT",             "LINE_COMMENT">>)
    @@ (<<"LINE_COMMENT",       "NL">>     :> <<"EMIT_CURRENT",             "DEFAULT">>)
    @@ (<<"LINE_COMMENT",       "OTHER">>  :> <<"EMIT_ONE_SPACE",           "LINE_COMMENT">>)

    @@ (<<"BLOCK_COMMENT",      "CR">>     :> <<"EMIT_CURRENT",             "BLOCK_COMMENT">>)
    @@ (<<"BLOCK_COMMENT",      "NL">>     :> <<"EMIT_CURRENT",             "BLOCK_COMMENT">>)
    @@ (<<"BLOCK_COMMENT",      "STAR">>   :> <<"EMIT_ONE_SPACE",           "BLOCK_COMMENT_STAR">>)
    @@ (<<"BLOCK_COMMENT",      "OTHER">>  :> <<"EMIT_ONE_SPACE",           "BLOCK_COMMENT">>)

    @@ (<<"BLOCK_COMMENT_STAR", "FSLASH">> :> <<"EMIT_ONE_SPACE",           "DEFAULT">>)
    @@ (<<"BLOCK_COMMENT_STAR", "CR">>     :> <<"EMIT_CURRENT",             "BLOCK_COMMENT">>)
    @@ (<<"BLOCK_COMMENT_STAR", "NL">>     :> <<"EMIT_CURRENT",             "BLOCK_COMMENT">>)
    @@ (<<"BLOCK_COMMENT_STAR", "STAR">>   :> <<"EMIT_ONE_SPACE",           "BLOCK_COMMENT_STAR">>)
    @@ (<<"BLOCK_COMMENT_STAR", "OTHER">>  :> <<"EMIT_ONE_SPACE",           "BLOCK_COMMENT">>)

    @@ (<<"STRING",             "BSLASH">> :> <<"EMIT_CURRENT",             "STRING_BACKSLASH">>)
    @@ (<<"STRING",             "QUOTE">>  :> <<"EMIT_CURRENT",             "DEFAULT">>)
    @@ (<<"STRING",             "OTHER">>  :> <<"EMIT_CURRENT",             "STRING">>)

    @@ (<<"STRING_BACKSLASH",   "OTHER">>  :> <<"EMIT_CURRENT",             "STRING">>)

\* The classification table; characters it does not hold are OTHER.
character_classifications ==
       ("/"  :> "FSLASH")
    @@ ("\\" :> "BSLASH")
    @@ ("\"" :> "QUOTE")
    @@ ("\r" :> "CR")
    @@ ("\n" :> "NL")
    @@ ("*"  :> "STAR")

\* Classify with an entry of the classification table missing.
ClassifyWithout(missing, current_character) ==
    IF current_character \in DOMAIN character_classifications \ {missing}
    THEN character_classifications[current_character]
    ELSE "OTHER"

Classify_NoQuote(current_character) == ClassifyWithout("\"", current_character)
Classify_NoBackslash(current_character) == ClassifyWithout("\\", current_character)
Classify_NoNewline(current_character) == ClassifyWithout("\n", current_character)
Classify_NoCarriageReturn(current_character) == ClassifyWithout("\r", current_character)

\* _character_classifications.get(current_character, CharacterClass.OTHER)
Classify(current_character) ==
    IF current_character \in DOMAIN character_classifications
    THEN character_classifications[current_character]
    ELSE "OTHER"

\* The class the table is looked up with: the character's class when the
\* table holds (state, class), OTHER otherwise.
\* The lookup without the fallback to (state, OTHER).
LookupClass_NoFallback(s, current_character) == Classify(current_character)

LookupClass(s, current_character) ==
    IF <<s, Classify(current_character)>> \in DOMAIN fsm_definition
    THEN Classify(current_character)
    ELSE "OTHER"

\* (action, next_state) = _fsm_definition[(state, character_class)]
\* The table with a quote opening a string inside comments too.
Lookup_QuoteInCommentOpensString(s, current_character) ==
    IF s \in {"LINE_COMMENT", "BLOCK_COMMENT"} /\ Classify(current_character) = "QUOTE"
    THEN <<"EMIT_ONE_SPACE", "STRING">>
    ELSE fsm_definition[<<s, LookupClass(s, current_character)>>]

\* The table with a carriage return ending a line comment.
Lookup_CrEndsLineComment(s, current_character) ==
    IF s = "LINE_COMMENT" /\ Classify(current_character) = "CR"
    THEN <<"EMIT_CURRENT", "DEFAULT">>
    ELSE fsm_definition[<<s, LookupClass(s, current_character)>>]

\* The table with the opener's asterisk counted as the first half of */.
Lookup_OpenerStarCloses(s, current_character) ==
    IF s = "COMMENT_INTRO" /\ Classify(current_character) = "STAR"
    THEN <<"EMIT_TWO_SPACES", "BLOCK_COMMENT_STAR">>
    ELSE fsm_definition[<<s, LookupClass(s, current_character)>>]

Lookup(s, current_character) == fsm_definition[<<s, LookupClass(s, current_character)>>]

\* Emit with the second space of EMIT_TWO_SPACES forgotten.
Emit_OneSpaceForMarker(action, current_character) ==
    CASE action = "EMIT_CURRENT"             -> <<current_character>>
      [] action = "EMIT_FSLASH_THEN_CURRENT" -> <<"/", current_character>>
      [] action = "EMIT_ONE_SPACE"           -> <<" ">>
      [] action = "EMIT_TWO_SPACES"          -> <<" ">>
      [] OTHER                               -> <<>>

\* Emit with EMIT_ONE_SPACE treated as EMIT_CURRENT.
Emit_BodyKept(action, current_character) ==
    CASE action = "EMIT_CURRENT"             -> <<current_character>>
      [] action = "EMIT_FSLASH_THEN_CURRENT" -> <<"/", current_character>>
      [] action = "EMIT_ONE_SPACE"           -> <<current_character>>
      [] action = "EMIT_TWO_SPACES"          -> <<" ", " ">>
      [] OTHER                               -> <<>>

\* Emit with the slash of EMIT_FSLASH_THEN_CURRENT forgotten.
Emit_SlashDropped(action, current_character) ==
    CASE action = "EMIT_CURRENT"             -> <<current_character>>
      [] action = "EMIT_FSLASH_THEN_CURRENT" -> <<current_character>>
      [] action = "EMIT_ONE_SPACE"           -> <<" ">>
      [] action = "EMIT_TWO_SPACES"          -> <<" ", " ">>
      [] OTHER                               -> <<>>

\* Emit with the slash of EMIT_FSLASH_THEN_CURRENT appended after the
\* current character.
Emit_SlashAfterCurrent(action, current_character) ==
    CASE action = "EMIT_CURRENT"             -> <<current_character>>
      [] action = "EMIT_FSLASH_THEN_CURRENT" -> <<current_character, "/">>
      [] action = "EMIT_ONE_SPACE"           -> <<" ">>
      [] action = "EMIT_TWO_SPACES"          -> <<" ", " ">>
      [] OTHER                               -> <<>>

\* EMIT_NOTHING appending a space for the slash that is held back.
Emit_SpaceForNothing(action, current_character) ==
    CASE action = "EMIT_CURRENT"             -> <<current_character>>
      [] action = "EMIT_FSLASH_THEN_CURRENT" -> <<"/", current_character>>
      [] action = "EMIT_ONE_SPACE"           -> <<" ">>
      [] action = "EMIT_TWO_SPACES"          -> <<" ", " ">>
      [] OTHER                               -> <<" ">>

\* What the action appends to the output list.
Emit(action, current_character) ==
    CASE action = "EMIT_CURRENT"             -> <<current_character>>
      [] action = "EMIT_FSLASH_THEN_CURRENT" -> <<"/", current_character>>
      [] action = "EMIT_ONE_SPACE"           -> <<" ">>
      [] action = "EMIT_TWO_SPACES"          -> <<" ", " ">>
      [] OTHER                               -> <<>>

\* The code after the loop with the pending slash never emitted.
FinalOutput_Nothing(s) == <<>>

\* What the code after the loop appends for the final state.
FinalOutput(s) == IF s = "COMMENT_INTRO" THEN <<"/">> ELSE <<>>

\* Raises with BLOCK_COMMENT_STAR forgotten.
Raises_OnlyBlockComment(s) == s = "BLOCK_COMMENT"

\* Raises for every final state in which the input ended inside something.
Raises_InsideAnything(s) == s \notin {"DEFAULT", "LINE_COMMENT", "COMMENT_INTRO"}

\* The final states the code after the loop raises JSONWithCommentsError for.
Raises(s) == s \in {"BLOCK_COMMENT", "BLOCK_COMMENT_STAR"}

UnterminatedMessage == "Unterminated block comment."

-----------------------------------------------------------------------------
(* The call. *)

\* The state on entry to a call with argument s.
Entry(s) ==
    /\ input_string = s
    /\ pos = 0
    /\ state = "DEFAULT"
    /\ output = <<>>
    /\ history = <<>>
    /\ pc = "scan"
    /\ result = <<"none">>

\* Nothing surrounds the call.
Alone ==
    /\ call = 1
    /\ previous = <<>>
    /\ parser_calls = <<>>
    /\ caller = <<"none">>
    /\ other_input = <<>>
    /\ other_pos = 0
    /\ other_state = "DEFAULT"
    /\ other_output = <<>>
    /\ other_pc = "idle"
    /\ other_result = <<"none">>
    /\ v_pos = 0
    /\ v_state = "START"
    /\ v_output = <<>>
    /\ v_history = <<>>
    /\ v_pc = "idle"
    /\ v_result = <<"none">>
    /\ v_parser_calls = <<>>
    /\ v_caller = <<"none">>

Init == (\E s \in Inputs : Entry(s)) /\ Alone

\* One iteration of the loop that stays at the character it has read.
Step_SameCharacterAgain ==
    /\ pc = "scan"
    /\ pos < Len(input_string)
    /\ Len(history) <= pos
    /\ LET current_character == input_string[pos + 1]
           entry == Lookup(state, current_character)
       IN  /\ output' = output \o Emit(entry[1], current_character)
           /\ state' = entry[2]
           /\ history' = Append(history, entry[2])
    /\ pos' = pos
    /\ UNCHANGED <<input_string, pc, result>>
    /\ UNCHANGED ext_vars

\* One iteration of the loop over input_string.
Step ==
    /\ pc = "scan"
    /\ pos < Len(input_string)
    /\ LET current_character == input_string[pos + 1]
           entry == Lookup(state, current_character)
       IN  /\ output' = output \o Emit(entry[1], current_character)
           /\ state' = entry[2]
           /\ history' = Append(history, entry[2])
    /\ pos' = pos + 1
    /\ UNCHANGED <<input_string, pc, result>>
    /\ UNCHANGED ext_vars

\* The code after the loop, when it returns the joined output.
Return ==
    /\ pc = "scan"
    /\ pos = Len(input_string)
    /\ ~Raises(state)
    /\ output' = output \o FinalOutput(state)
    /\ result' = <<"value", output'>>
    /\ pc' = "returned"
    /\ UNCHANGED <<input_string, pos, state, history>>
    /\ UNCHANGED ext_vars

\* The code after the loop, when it raises.
Raise ==
    /\ pc = "scan"
    /\ pos = Len(input_string)
    /\ Raises(state)
    /\ result' = <<"error", UnterminatedMessage>>
    /\ pc' = "raised"
    /\ UNCHANGED <<input_string, pos, state, output, history>>
    /\ UNCHANGED ext_vars

Next == Step \/ Return \/ Raise

Spec == Init /\ [][Next]_vars

TypeOK ==
    /\ pos \in 0..Len(input_string)
    /\ state \in FsmState
    /\ Len(history) = pos
    /\ pc \in {"scan", "returned", "raised"}

-----------------------------------------------------------------------------
(* The function applied to its own result. *)

\* A caller passes the string the first call returned to a second call.
Reapply ==
    /\ pc = "returned"
    /\ call = 1
    /\ previous' = <<input_string, result>>
    /\ call' = 2
    /\ input_string' = result[2]
    /\ pos' = 0
    /\ state' = "DEFAULT"
    /\ output' = <<>>
    /\ history' = <<>>
    /\ pc' = "scan"
    /\ result' = <<"none">>
    /\ UNCHANGED <<parser_calls, caller, other_vars, variant_vars>>

InitTwice == (\E s \in InputsShort : Entry(s)) /\ Alone

NextTwice == Step \/ Return \/ Raise \/ Reapply

SpecTwice == InitTwice /\ [][NextTwice]_vars

-----------------------------------------------------------------------------
(* parse_json_with_comments: the call, then json.loads on its result.  The *)
(* JSON parser is not part of the repository: it either returns a value    *)
(* or raises json.JSONDecodeError, and which of the two is left open.      *)

\* The value json.loads returns for text, when it returns one.
JsonValue(text) == <<"json", text>>

NotValidMessage == "Comment removal did not yield valid JSON."

\* The except clause without the wrapping: the parser's error re-raised.
WrapParserError_NotWrapped(json_exception) ==
    <<"error", json_exception, "", "none">>

\* raise JSONWithCommentsError(...) from json_exception
WrapParserError(json_exception) ==
    <<"error", "JSONWithCommentsError", NotValidMessage, json_exception>>

\* The JSONWithCommentsError of the call leaves the wrapper as it is.
Propagate ==
    /\ pc = "raised"
    /\ caller = <<"none">>
    /\ caller' = <<"error", "JSONWithCommentsError", result[2], "none">>
    /\ UNCHANGED <<scan_vars, call, previous, parser_calls, other_vars, variant_vars>>

\* json.loads accepts what the call returned.
LoadsValue ==
    /\ pc = "returned"
    /\ caller = <<"none">>
    /\ parser_calls' = Append(parser_calls, result[2])
    /\ caller' = <<"value", JsonValue(result[2])>>
    /\ UNCHANGED <<scan_vars, call, previous, other_vars, variant_vars>>

\* json.loads raises JSONDecodeError on what the call returned.
LoadsError ==
    /\ pc = "returned"
    /\ caller = <<"none">>
    /\ parser_calls' = Append(parser_calls, result[2])
    /\ caller' = WrapParserError("JSONDecodeError")
    /\ UNCHANGED <<scan_vars, call, previous, other_vars, variant_vars>>

InitParse == (\E s \in InputsShort : Entry(s)) /\ Alone

NextParse == Step \/ Return \/ Raise \/ Propagate \/ LoadsValue \/ LoadsError

SpecParse == InitParse /\ [][NextParse]_vars

-----------------------------------------------------------------------------
(* test_json_with_comments.py: the stress-test document, line by line, as  *)
(* the Python string literal denotes it (\\ in the source is one           *)
(* backslash).  Each character outside ASCII is written "u": like every    *)
(* character it stands for it has no entry in character_classifications.   *)

\* # This is a small test to see if comment removal works as it should.
StressTest_Line1 ==
    << "#", " ", "T", "h", "i", "s", " ", "i", "s", " ",
       "a", " ", "s", "m", "a", "l", "l", " ", "t", "e",
       "s", "t", " ", "t", "o", " ", "s", "e", "e", " ",
       "i", "f", " ", "c", "o", "m", "m", "e", "n", "t",
       " ", "r", "e", "m", "o", "v", "a", "l", " ", "w",
       "o", "r", "k", "s", " ", "a", "s", " ", "i", "t",
       " ", "s", "h", "o", "u", "l", "d", ".", "\n" >>

\* {
StressTest_Line2 ==
    << "{", "\n" >>

\*    "key"     : "value", 
StressTest_Line3_Value ==
    << " ", " ", " ", "\"", "k", "e", "y", "\"", " ", " ",
       " ", " ", " ", ":", " ", "\"", "v", "a", "l", "u",
       "e", "\"", ",", " " >>

\* # end-of-line comment...
StressTest_Line3_Comment ==
    << "#", " ", "e", "n", "d", "-", "o", "f", "-", "l",
       "i", "n", "e", " ", "c", "o", "m", "m", "e", "n",
       "t", ".", ".", ".", "\n" >>

StressTest_Line3 == StressTest_Line3_Value \o StressTest_Line3_Comment

\*    "hello"   : [ true, false, null, 1.0, "ciao" ],
StressTest_Line4 ==
    << " ", " ", " ", "\"", "h", "e", "l", "l", "o", "\"",
       " ", " ", " ", ":", " ", "[", " ", "t", "r", "u",
       "e", ",", " ", "f", "a", "l", "s", "e", ",", " ",
       "n", "u", "l", "l", ",", " ", "1", ".", "0", ",",
       " ", "\"", "c", "i", "a", "o", "\"", " ", "]", ",",
       "\n" >>

\*    "strings" : ["", "Muutorhead", "/", "\\", "\/", "\"", "uuuu", "\u2665" ],
StressTest_Line5 ==
    << " ", " ", " ", "\"", "s", "t", "r", "i", "n", "g",
       "s", "\"", " ", ":", " ", "[", "\"", "\"", ",", " ",
       "\"", "M", "u", "u", "t", "o", "r", "h", "e", "a",
       "d", "\"", ",", " ", "\"", "/", "\"", ",", " ", "\"",
       "\\", "\\", "\"", ",", " ", "\"", "\\", "/", "\"", ",",
       " ", "\"", "\\", "\"", "\"", ",", " ", "\"", "u", "u",
       "u", "u", "\"", ",", " ", "\"", "\\", "u", "2", "6",
       "6", "5", "\"", " ", "]", ",", "\n" >>

\*    "numbers" : [0, -0, 0e0 ]
StressTest_Line6 ==
    << " ", " ", " ", "\"", "n", "u", "m", "b", "e", "r",
       "s", "\"", " ", ":", " ", "[", "0", ",", " ", "-",
       "0", ",", " ", "0", "e", "0", " ", "]", "\n" >>

\* }
StressTest_Line7 ==
    << "}", "\n" >>

\* (an empty line)
StressTest_Line8 ==
    << "\n" >>

\* # bye!
StressTest_Line9 ==
    << "#", " ", "b", "y", "e", "!", "\n" >>

Str_StressTest ==
    StressTest_Line1 \o StressTest_Line2 \o StressTest_Line3
    \o StressTest_Line4 \o StressTest_Line5 \o StressTest_Line6
    \o StressTest_Line7 \o StressTest_Line8 \o StressTest_Line9

\* Longest of the short inputs with # that accompany the test's document.
MaxLenTest == 3

InputsTest ==
    {Str_StressTest} \cup StringsUpTo(Alphabet \cup {"#"}, MaxLenTest)
        \cup Examples

\* The call of the test on its document, and on short inputs beside it.
InitTest == (\E s \in InputsTest : Entry(s)) /\ Alone

SpecTest == InitTest /\ [][Next]_vars

\* The same calls, run to their end.
SpecTerminates == InitTest /\ [][Next]_vars /\ WF_vars(Next)

-----------------------------------------------------------------------------
(* Two invocations at the same time, on inputs of their own.  state and    *)
(* output are local variables of the function, so each invocation has its  *)
(* own; _fsm_definition and _character_classifications are module-level    *)
(* dictionaries that the function only reads.  The invocations take turns  *)
(* in any order, one loop iteration (or the code after the loop) at a      *)
(* time.                                                                   *)

\* Longest input over AlphabetConcurrent of each of the two invocations.
MaxLenConcurrent == 2

AlphabetConcurrent == {"/", "*", "\"", "\n", "x"}

InputsConcurrent ==
    StringsUpTo(AlphabetConcurrent, MaxLenConcurrent) \cup Examples

\* The other invocation's loop iteration, were state a variable that the
\* invocations share.
OtherStep_SharedState ==
    /\ other_pc = "scan"
    /\ other_pos < Len(other_input)
    /\ LET current_character == other_input[other_pos + 1]
           entry == Lookup(state, current_character)
       IN  /\ other_output' = other_output \o Emit(entry[1], current_character)
           /\ state' = entry[2]
    /\ other_pos' = other_pos + 1
    /\ UNCHANGED <<other_input, other_state, other_pc, other_result>>
    /\ UNCHANGED <<input_string, pos, output, history, pc, result>>
    /\ UNCHANGED <<call, previous, parser_calls, caller, variant_vars>>

\* One iteration of the other invocation's loop.
OtherStep ==
    /\ other_pc = "scan"
    /\ other_pos < Len(other_input)
    /\ LET current_character == other_input[other_pos + 1]
           entry == Lookup(other_state, current_character)
       IN  /\ other_output' = other_output \o Emit(entry[1], current_character)
           /\ other_state' = entry[2]
    /\ other_pos' = other_pos + 1
    /\ UNCHANGED <<other_input, other_pc, other_result>>
    /\ UNCHANGED <<scan_vars, call, previous, parser_calls, caller, variant_vars>>

OtherReturn ==
    /\ other_pc = "scan"
    /\ other_pos = Len(other_input)
    /\ ~Raises(other_state)
    /\ other_output' = other_output \o FinalOutput(other_state)
    /\ other_result' = <<"value", other_output'>>
    /\ other_pc' = "returned"
    /\ UNCHANGED <<other_input, other_pos, other_state>>
    /\ UNCHANGED <<scan_vars, call, previous, parser_calls, caller, variant_vars>>

OtherRaise ==
    /\ other_pc = "scan"
    /\ other_pos = Len(other_input)
    /\ Raises(other_state)
    /\ other_result' = <<"error", UnterminatedMessage>>
    /\ other_pc' = "raised"
    /\ UNCHANGED <<other_input, other_pos, other_state, other_output>>
    /\ UNCHANGED <<scan_vars, call, previous, parser_calls, caller, variant_vars>>

InitConcurrent ==
    /\ \E s \in InputsConcurrent : Entry(s)
    /\ call = 1
    /\ previous = <<>>
    /\ parser_calls = <<>>
    /\ caller = <<"none">>
    /\ other_input \in InputsConcurrent
    /\ other_pos = 0
    /\ other_state = "DEFAULT"
    /\ other_output = <<>>
    /\ other_pc = "scan"
    /\ other_result = <<"none">>
    /\ v_pos = 0
    /\ v_state = "START"
    /\ v_output = <<>>
    /\ v_history = <<>>
    /\ v_pc = "idle"
    /\ v_result = <<"none">>
    /\ v_parser_calls = <<>>
    /\ v_caller = <<"none">>

NextConcurrent ==
    Step \/ Return \/ Raise \/ OtherStep \/ OtherReturn \/ OtherRaise

SpecConcurrent == InitConcurrent /\ [][NextConcurrent]_vars

\* The function run alone, as a function of its argument: <<state, output>>
\* after the first k characters of s, and the result of the call.
RECURSIVE ScanState(_, _)
ScanState(s, k) ==
    IF k = 0
    THEN <<"DEFAULT", <<>>>>
    ELSE LET before == ScanState(s, k - 1)
             entry == Lookup(before[1], s[k])
         IN  <<entry[2], before[2] \o Emit(entry[1], s[k])>>

RunAlone(s) ==
    LET end == ScanState(s, Len(s))
    IN  IF Raises(end[1])
        THEN <<"error", UnterminatedMessage>>
        ELSE <<"value", end[2] \o FinalOutput(end[1])>>

-----------------------------------------------------------------------------
(* json_with_comments_fsm.py: the variant that removes comments, with its  *)
(* table written out for all 49 pairs.                                     *)

Variant_FsmState == {"START", "MAYBE_COMMENT", "LINE_COMMENT", "BLOCK_COMMENT",
                     "BLOCK_COMMENT_STAR", "STRING", "STRING_BACKSLASH"}

Variant_FsmAction == {"EMIT_NOTHING", "EMIT_CURRENT", "EMIT_FSLASH_THEN_CURRENT"}

Variant_fsm_definition ==
       (<<"START", "FSLASH">>           :> <<"EMIT_NOTHING",             "MAYBE_COMMENT">>)
    @@ (<<"START", "BSLASH">>           :> <<"EMIT_CURRENT",             "START">>)
    @@ (<<"START", "QUOTE">>            :> <<"EMIT_CURRENT",             "STRING">>)
    @@ (<<"START", "CR">>               :> <<"EMIT_CURRENT",             "START">>)
    @@ (<<"START", "NL">>               :> <<"EMIT_CURRENT",             "START">>)
    @@ (<<"START", "STAR">>             :> <<"EMIT_CURRENT",             "START">>)
    @@ (<<"START", "OTHER">>            :> <<"EMIT_CURRENT",             "START">>)

    @@ (<<"MAYBE_COMMENT", "FSLASH">>   :> <<"EMIT_NOTHING",             "LINE_COMMENT">>)
    @@ (<<"MAYBE_COMMENT", "BSLASH">>   :> <<"EMIT_FSLASH_THEN_CURRENT", "START">>)
    @@ (<<"MAYBE_COMMENT", "QUOTE">>    :> <<"EMIT_FSLASH_THEN_CURRENT", "START">>)
    @@ (<<"MAYBE_COMMENT", "CR">>       :> <<"EMIT_FSLASH_THEN_CURRENT", "START">>)
    @@ (<<"MAYBE_COMMENT", "NL">>       :> <<"EMIT_FSLASH_THEN_CURRENT", "START">>)
    @@ (<<"MAYBE_COMMENT", "STAR">>     :> <<"EMIT_NOTHING",             "BLOCK_COMMENT">>)
    @@ (<<"MAYBE_COMMENT", "OTHER">>    :> <<"EMIT_FSLASH_THEN_CURRENT", "START">>)

    @@ (<<"LINE_COMMENT", "FSLASH">>    :> <<"EMIT_NOTHING",             "LINE_COMMENT">>)
    @@ (<<"LINE_COMMENT", "BSLASH">>    :> <<"EMIT_NOTHING",             "LINE_COMMENT">>)
    @@ (<<"LINE_COMMENT", "QUOTE">>     :> <<"EMIT_NOTHING",             "LINE_COMMENT">>)
    @@ (<<"LINE_COMMENT", "CR">>        :> <<"EMIT_CURRENT",             "LINE_COMMENT">>)
    @@ (<<"LINE_COMMENT", "NL">>        :> <<"EMIT_CURRENT",             "START">>)
    @@ (<<"LINE_COMMENT", "STAR">>      :> <<"EMIT_NOTHING",             "LINE_COMMENT">>)
    @@ (<<"LINE_COMMENT", "OTHER">>     :> <<"EMIT_NOTHING",             "LINE_COMMENT">>)

    @@ (<<"BLOCK_COMMENT", "FSLASH">>   :> <<"EMIT_NOTHING",             "BLOCK_COMMENT">>)
    @@ (<<"BLOCK_COMMENT", "BSLASH">>   :> <<"EMIT_NOTHING",             "BLOCK_COMMENT">>)
    @@ (<<"BLOCK_COMMENT", "QUOTE">>    :> <<"EMIT_NOTHING",             "BLOCK_COMMENT">>)
    @@ (<<"BLOCK_COMMENT", "CR">>       :> <<"EMIT_CURRENT",             "BLOCK_COMMENT">>)
    @@ (<<"BLOCK_COMMENT", "NL">>       :> <<"EMIT_CURRENT",             "BLOCK_COMMENT">>)
    @@ (<<"BLOCK_COMMENT", "STAR">>     :> <<"EMIT_NOTHING",             "BLOCK_COMMENT_STAR">>)
    @@ (<<"BLOCK_COMMENT", "OTHER">>    :> <<"EMIT_NOTHING",             "BLOCK_COMMENT">>)

    @@ (<<"BLOCK_COMMENT_STAR", "FSLASH">> :> <<"EMIT_NOTHING",             "START">>)
    @@ (<<"BLOCK_COMMENT_STAR", "BSLASH">> :> <<"EMIT_NOTHING",             "BLOCK_COMMENT">>)
    @@ (<<"BLOCK_COMMENT_STAR", "QUOTE">> :> <<"EMIT_NOTHING",             "BLOCK_COMMENT">>)
    @@ (<<"BLOCK_COMMENT_STAR", "CR">>  :> <<"EMIT_CURRENT",             "BLOCK_COMMENT">>)
    @@ (<<"BLOCK_COMMENT_STAR", "NL">>  :> <<"EMIT_CURRENT",             "BLOCK_COMMENT">>)
    @@ (<<"BLOCK_COMMENT_STAR", "STAR">> :> <<"EMIT_NOTHING",             "BLOCK_COMMENT_STAR">>)
    @@ (<<"BLOCK_COMMENT_STAR", "OTHER">> :> <<"EMIT_NOTHING",             "BLOCK_COMMENT">>)

    @@ (<<"STRING", "FSLASH">>          :> <<"EMIT_CURRENT",             "STRING">>)
    @@ (<<"STRING", "BSLASH">>          :> <<"EMIT_CURRENT",             "STRING_BACKSLASH">>)
    @@ (<<"STRING", "QUOTE">>           :> <<"EMIT_CURRENT",             "START">>)
    @@ (<<"STRING", "CR">>              :> <<"EMIT_CURRENT",             "STRING">>)
    @@ (<<"STRING", "NL">>              :> <<"EMIT_CURRENT",             "STRING">>)
    @@ (<<"STRING", "STAR">>            :> <<"EMIT_CURRENT",             "STRING">>)
    @@ (<<"STRING", "OTHER">>           :> <<"EMIT_CURRENT",             "STRING">>)

    @@ (<<"STRING_BACKSLASH", "FSLASH">> :> <<"EMIT_CURRENT",             "STRING">>)
    @@ (<<"STRING_BACKSLASH", "BSLASH">> :> <<"EMIT_CURRENT",             "STRING">>)
    @@ (<<"STRING_BACKSLASH", "QUOTE">> :> <<"EMIT_CURRENT",             "STRING">>)
    @@ (<<"STRING_BACKSLASH", "CR">>    :> <<"EMIT_CURRENT",             "STRING">>)
    @@ (<<"STRING_BACKSLASH", "NL">>    :> <<"EMIT_CURRENT",             "STRING">>)
    @@ (<<"STRING_BACKSLASH", "STAR">>  :> <<"EMIT_CURRENT",             "STRING">>)
    @@ (<<"STRING_BACKSLASH", "OTHER">> :> <<"EMIT_CURRENT",             "STRING">>)

Variant_character_classifications ==
       ("/"  :> "FSLASH")
    @@ ("\\" :> "BSLASH")
    @@ ("\"" :> "QUOTE")
    @@ ("\r" :> "CR")
    @@ ("\n" :> "NL")
    @@ ("*"  :> "STAR")

\* _character_classifications.get(current_character, CharacterClass.OTHER)
Variant_Classify(current_character) ==
    IF current_character \in DOMAIN Variant_character_classifications
    THEN Variant_character_classifications[current_character]
    ELSE "OTHER"

\* The variant's table with a quote after a lone slash opening a string.
Variant_Lookup_QuoteAfterSlashOpensString(s, current_character) ==
    IF s = "MAYBE_COMMENT" /\ Variant_Classify(current_character) = "QUOTE"
    THEN <<"EMIT_FSLASH_THEN_CURRENT", "STRING">>
    ELSE Variant_fsm_definition[<<s, Variant_Classify(current_character)>>]

Variant_Lookup(s, current_character) ==
    Variant_fsm_definition[<<s, Variant_Classify(current_character)>>]

\* What the two if statements of the loop append to the output list.
Variant_Emit(action, current_character) ==
    (IF action = "EMIT_FSLASH_THEN_CURRENT" THEN <<"/">> ELSE <<>>)
    \o (IF action # "EMIT_NOTHING" THEN <<current_character>> ELSE <<>>)

Variant_Raises(s) == s \in {"BLOCK_COMMENT", "BLOCK_COMMENT_STAR"}

Variant_UnterminatedMessage == "Unterminated block comment at end of string."

\* The variant is called on the input of the function.
VariantEntry ==
    /\ v_pos = 0
    /\ v_state = "START"
    /\ v_output = <<>>
    /\ v_history = <<>>
    /\ v_pc = "scan"
    /\ v_result = <<"none">>
    /\ v_parser_calls = <<>>
    /\ v_caller = <<"none">>

VariantStep ==
    /\ v_pc = "scan"
    /\ v_pos < Len(input_string)
    /\ LET current_character == input_string[v_pos + 1]
           entry == Variant_Lookup(v_state, current_character)
       IN  /\ v_output' = v_output \o Variant_Emit(entry[1], current_character)
           /\ v_state' = entry[2]
           /\ v_history' = Append(v_history, entry[2])
    /\ v_pos' = v_pos + 1
    /\ UNCHANGED <<v_pc, v_result, v_parser_calls, v_caller>>
    /\ UNCHANGED <<scan_vars, call, previous, parser_calls, caller, other_vars>>

\* The variant's return with the held-back slash appended first, as the
\* function does.
VariantReturn_SlashAppended ==
    /\ v_pc = "scan"
    /\ v_pos = Len(input_string)
    /\ ~Variant_Raises(v_state)
    /\ v_output' = v_output \o (IF v_state = "MAYBE_COMMENT" THEN <<"/">> ELSE <<>>)
    /\ v_result' = <<"value", v_output'>>
    /\ v_pc' = "returned"
    /\ UNCHANGED <<v_pos, v_state, v_history, v_parser_calls, v_caller>>
    /\ UNCHANGED <<scan_vars, call, previous, parser_calls, caller, other_vars>>

VariantReturn ==
    /\ v_pc = "scan"
    /\ v_pos = Len(input_string)
    /\ ~Variant_Raises(v_state)
    /\ v_result' = <<"value", v_output>>
    /\ v_pc' = "returned"
    /\ UNCHANGED <<v_pos, v_state, v_output, v_history, v_parser_calls, v_caller>>
    /\ UNCHANGED <<scan_vars, call, previous, parser_calls, caller, other_vars>>

VariantRaise ==
    /\ v_pc = "scan"
    /\ v_pos = Len(input_string)
    /\ Variant_Raises(v_state)
    /\ v_result' = <<"error", Variant_UnterminatedMessage>>
    /\ v_pc' = "raised"
    /\ UNCHANGED <<v_pos, v_state, v_output, v_history, v_parser_calls, v_caller>>
    /\ UNCHANGED <<scan_vars, call, previous, parser_calls, caller, other_vars>>

InitBoth ==
    /\ \E s \in InputsShort : Entry(s)
    /\ call = 1
    /\ previous = <<>>
    /\ parser_calls = <<>>
    /\ caller = <<"none">>
    /\ other_input = <<>>
    /\ other_pos = 0
    /\ other_state = "DEFAULT"
    /\ other_output = <<>>
    /\ other_pc = "idle"
    /\ other_result = <<"none">>
    /\ VariantEntry

NextBoth ==
    Step \/ Return \/ Raise \/ VariantStep \/ VariantReturn \/ VariantRaise

SpecBoth == InitBoth /\ [][NextBoth]_vars

\* The variant run alone, as a function of its argument: <<state, output>>
\* after the first k characters of s.
RECURSIVE Variant_ScanState(_, _)
Variant_ScanState(s, k) ==
    IF k = 0
    THEN <<"START", <<>>>>
    ELSE LET before == Variant_ScanState(s, k - 1)
             entry == Variant_Lookup(before[1], s[k])
         IN  <<entry[2], before[2] \o Variant_Emit(entry[1], s[k])>>

-----------------------------------------------------------------------------
(* json_with_comments_fsm.py, read_json_with_comments: the file's text is  *)
(* input_string; parse_json_with_comments is called inside the try, and    *)
(* it calls the variant scanner and then json.loads, with no try of its    *)
(* own.  json.JSONDecodeError is a subclass of ValueError.                 *)

ValueErrors == {"ValueError", "JSONDecodeError"}

Variant_EndOfFileMessage == "Unterminated block comment at end of file."

\* try: ... except ValueError: raise ValueError(...), for an exception of
\* the given type and message raised inside the try.
Variant_ReadExcept(type, message) ==
    IF type \in ValueErrors
    THEN <<"error", "ValueError", Variant_EndOfFileMessage>>
    ELSE <<"error", type, message>>

\* The scanner's ValueError passes through parse_json_with_comments.
VariantReadScanError ==
    /\ v_pc = "raised"
    /\ v_caller = <<"none">>
    /\ v_caller' = Variant_ReadExcept("ValueError", v_result[2])
    /\ UNCHANGED <<v_pos, v_state, v_output, v_history, v_pc, v_result, v_parser_calls>>
    /\ UNCHANGED <<scan_vars, call, previous, parser_calls, caller, other_vars>>

\* json.loads accepts what the scanner returned.
VariantLoadsValue ==
    /\ v_pc = "returned"
    /\ v_caller = <<"none">>
    /\ v_parser_calls' = Append(v_parser_calls, v_result[2])
    /\ v_caller' = <<"value", JsonValue(v_result[2])>>
    /\ UNCHANGED <<v_pos, v_state, v_output, v_history, v_pc, v_result>>
    /\ UNCHANGED <<scan_vars, call, previous, parser_calls, caller, other_vars>>

\* json.loads raises JSONDecodeError on what the scanner returned.
VariantLoadsError ==
    /\ v_pc = "returned"
    /\ v_caller = <<"none">>
    /\ v_parser_calls' = Append(v_parser_calls, v_result[2])
    /\ v_caller' = Variant_ReadExcept("JSONDecodeError", "")
    /\ UNCHANGED <<v_pos, v_state, v_output, v_history, v_pc, v_result>>
    /\ UNCHANGED <<scan_vars, call, previous, parser_calls, caller, other_vars>>

NextVariantRead ==
    \/ VariantStep \/ VariantReturn \/ VariantRaise
    \/ VariantReadScanError \/ VariantLoadsValue \/ VariantLoadsError

SpecVariantRead == InitBoth /\ [][NextVariantRead]_vars

-----------------------------------------------------------------------------
(* The lexical structure of an input, stated on the input text alone       *)
(* (without the transition table): which characters form string literals,  *)
(* line comments and block comments.  The claims are checked against it.   *)

Min(a, b) == IF a < b THEN a ELSE b

\* The index of the quote that closes a string literal whose content starts
\* at i (the next quote not escaped by a backslash), Len(s) + 1 if none.
RECURSIVE StringEnd(_, _)
StringEnd(s, i) ==
    IF i > Len(s) THEN Len(s) + 1
    ELSE IF s[i] = "\\" THEN StringEnd(s, i + 2)
    ELSE IF s[i] = "\"" THEN i
    ELSE StringEnd(s, i + 1)

\* The index of the first newline at or after i, Len(s) + 1 if none.
RECURSIVE LineEnd(_, _)
LineEnd(s, i) ==
    IF i > Len(s) THEN Len(s) + 1
    ELSE IF s[i] = "\n" THEN i
    ELSE LineEnd(s, i + 1)

\* The index of the slash of the first */ whose star is at or after i,
\* Len(s) + 1 if none.
RECURSIVE BlockEnd(_, _)
BlockEnd(s, i) ==
    IF i + 1 > Len(s) THEN Len(s) + 1
    ELSE IF s[i] = "*" /\ s[i + 1] = "/" THEN i + 1
    ELSE BlockEnd(s, i + 1)

\* The tokens from character i on, i being outside any string and comment:
\* a quote opens a string literal, // a line comment, /* a block comment,
\* anything else is ordinary content ("code").  A token is closed when its
\* closing quote, newline or */ is in the input; the newline that ends a
\* line comment is not part of it.  With pairs = TRUE a slash that opens no
\* comment forms one unit of ordinary content with the character after it,
\* so that a quote directly after such a slash opens no string; with
\* pairs = FALSE every quote outside strings and comments opens a string.
RECURSIVE TokensFrom(_, _, _)
TokensFrom(s, i, pairs) ==
    IF i > Len(s) THEN <<>>
    ELSE LET tok ==
                 IF s[i] = "\""
                 THEN [tag |-> "string", first |-> i,
                       last |-> Min(StringEnd(s, i + 1), Len(s)),
                       closed |-> StringEnd(s, i + 1) <= Len(s)]
                 ELSE IF s[i] = "/" /\ i < Len(s) /\ s[i + 1] = "/"
                 THEN [tag |-> "line", first |-> i,
                       last |-> LineEnd(s, i + 2) - 1,
                       closed |-> LineEnd(s, i + 2) <= Len(s)]
                 ELSE IF s[i] = "/" /\ i < Len(s) /\ s[i + 1] = "*"
                 THEN [tag |-> "block", first |-> i,
                       last |-> Min(BlockEnd(s, i + 2), Len(s)),
                       closed |-> BlockEnd(s, i + 2) <= Len(s)]
                 ELSE IF s[i] = "/" /\ i < Len(s) /\ pairs
                 THEN [tag |-> "code", first |-> i, last |-> i + 1, closed |-> TRUE]
                 ELSE [tag |-> "code", first |-> i, last |-> i, closed |-> TRUE]
         IN  <<tok>> \o TokensFrom(s, tok.last + 1, pairs)

\* The tokens as the scanner delimits them, and as they are when every
\* quote outside strings and comments opens a string.
Tokens(s) == TokensFrom(s, 1, TRUE)
TokensEveryQuoteOpens(s) == TokensFrom(s, 1, FALSE)

Range(f) == {f[k] : k \in DOMAIN f}

\* Character i belongs to a comment (its marker or its body).
InComment(toks, i) ==
    \E t \in Range(toks) : t.tag \in {"line", "block"} /\ t.first <= i /\ i <= t.last

IsLineBreak(c) == c \in {"\r", "\n"}

\* What a comment character is replaced by.
Blank(c) == IF IsLineBreak(c) THEN c ELSE " "

Returned == pc = "returned"
Raised   == pc = "raised"
Finished == pc # "scan"

\* The returned string (after Returned).
Out == result[2]

\* The state before character i was consumed.
StateBefore(i) == IF i = 1 THEN "DEFAULT" ELSE history[i - 1]

-----------------------------------------------------------------------------
\* C1. Position fidelity: when the call returns, the output is as long as
\* the input, and each of its characters is the input character at that
\* index, or a space at the index of a comment character.
PositionFidelity ==
    Returned =>
        /\ Len(Out) = Len(input_string)
        /\ LET toks == Tokens(input_string)
           IN  \A i \in 1..Len(input_string) :
                   \/ Out[i] = input_string[i]
                   \/ Out[i] = " " /\ InComment(toks, i)

\* A returned call whose input holds a string literal and a comment, with a
\* comment character that is no space replaced by a space.
PositionFidelity_Witness ==
    /\ Returned
    /\ LET toks == Tokens(input_string)
       IN  /\ \E t \in Range(toks) : t.tag = "string" /\ t.closed
           /\ \E i \in 1..Len(input_string) :
                  /\ InComment(toks, i)
                  /\ input_string[i] \notin {" ", "/", "*"}
                  /\ ~IsLineBreak(input_string[i])
                  /\ Out[i] = " "

-----------------------------------------------------------------------------
\* The closed string literals among toks are emitted unchanged, character
\* by character at the same index, up to and including the closing quote.
StringsUnchanged(toks) ==
    /\ Len(output) = Len(input_string)
    /\ \A t \in Range(toks) :
           (t.tag = "string" /\ t.closed) =>
               \A i \in t.first..t.last : output[i] = input_string[i]

\* The closed string literals among toks are scanned as strings: the
\* scanner is in STRING right after the opening quote, inside the string up
\* to the closing quote, and in DEFAULT after it.
StringsScanned(toks) ==
    \A t \in Range(toks) :
        (t.tag = "string" /\ t.closed) =>
            /\ history[t.first] = "STRING"
            /\ \A i \in t.first..(t.last - 1) :
                   history[i] \in {"STRING", "STRING_BACKSLASH"}
            /\ history[t.last] = "DEFAULT"

\* The inputs the claim and the test name: {"a": "// not a comment"}, and
\* the strings "/" and "\/".
ImmuneExamples ==
    { Str_NotAComment, <<"\"", "/", "\"">>, <<"\"", "\\", "/", "\"">> }

\* C2 as stated. String immunity, every quote outside any comment and any
\* string opening a string literal: each such literal is emitted unchanged
\* up to and including its closing quote.
StringImmunity_EveryQuoteOpens ==
    Finished => StringsUnchanged(TokensEveryQuoteOpens(input_string))

\* C2 as amended. String immunity, every quote outside any comment and any
\* string opening a string literal unless it directly follows a slash that
\* opens no comment: each such literal is scanned as a string and emitted
\* unchanged up to and including its closing quote, so no //, /* or */
\* inside it starts or ends a comment; the named examples map to
\* themselves.
StringImmunity ==
    Finished =>
        /\ StringsUnchanged(Tokens(input_string))
        /\ StringsScanned(Tokens(input_string))
        /\ input_string \in ImmuneExamples =>
               Returned /\ Out = input_string

\* A finished scan of an input with a closed string literal that holds a
\* comment marker.
StringImmunity_Witness ==
    /\ Returned
    /\ \E t \in Range(Tokens(input_string)) :
           /\ t.tag = "string" /\ t.closed
           /\ \E i \in (t.first + 1)..(t.last - 2) :
                  input_string[i] = "/" /\ input_string[i + 1] \in {"/", "*"}

-----------------------------------------------------------------------------
\* The input ends inside a block comment that is never closed.
UnterminatedBlock(s) ==
    \E t \in Range(Tokens(s)) : t.tag = "block" /\ ~t.closed

\* C3. The call raises the unterminated-block-comment error if and only if
\* the scan of the whole input ends in BLOCK_COMMENT or BLOCK_COMMENT_STAR
\* (the input ends inside an unclosed block comment); it raises only after
\* the last character, returning nothing; in every other final state it
\* returns a string; during the scan there is no result.
UnterminatedBlockRaises ==
    /\ pc = "scan" => result = <<"none">>
    /\ Raised =>
           /\ pos = Len(input_string)
           /\ state \in {"BLOCK_COMMENT", "BLOCK_COMMENT_STAR"}
           /\ UnterminatedBlock(input_string)
           /\ result = <<"error", "Unterminated block comment.">>
    /\ Returned =>
           /\ pos = Len(input_string)
           /\ state \notin {"BLOCK_COMMENT", "BLOCK_COMMENT_STAR"}
           /\ ~UnterminatedBlock(input_string)
           /\ result[1] = "value"
    /\ (pc = "scan" /\ pos = Len(input_string)) =>
           IF state \in {"BLOCK_COMMENT", "BLOCK_COMMENT_STAR"}
           THEN ENABLED Raise /\ ~ENABLED Return
           ELSE ENABLED Return /\ ~ENABLED Raise

\* The call raised on {"a":1} /* oops.
UnterminatedBlockRaises_Witness ==
    Raised /\ input_string = Str_Unterminated

-----------------------------------------------------------------------------
\* C4 as stated. Every line comment is replaced by exactly as many spaces
\* as it has characters.
LineCommentAllSpaces ==
    Returned =>
        /\ Len(Out) = Len(input_string)
        /\ \A t \in Range(Tokens(input_string)) :
               t.tag = "line" => \A i \in t.first..t.last : Out[i] = " "

\* {"a":1}//c\n{"b":2} with the comment replaced by three spaces.
Out_LineComment == <<"{", "\"", "a", "\"", ":", "1", "}", " ", " ", " ", "\n",
                     "{", "\"", "b", "\"", ":", "2", "}">>

\* C4 as amended. A line comment of k characters (the two slashes and the
\* body, up to the newline or the end of the input) is replaced by exactly
\* k characters: a space for each, except that a carriage return in it is
\* emitted unchanged.  The newline that ends it is emitted unchanged and
\* leaves the scanner in DEFAULT; a line comment that runs to the end of
\* the input is accepted without error.
LineCommentReplacement ==
    Finished =>
        \A t \in Range(Tokens(input_string)) :
            t.tag = "line" =>
                /\ ~t.closed => Returned
                /\ Returned =>
                       /\ Len(Out) = Len(input_string)
                       /\ \A i \in t.first..t.last :
                              Out[i] = IF input_string[i] = "\r" THEN "\r" ELSE " "
                       /\ t.closed =>
                              /\ Out[t.last + 1] = "\n"
                              /\ history[t.last + 1] = "DEFAULT"
                       /\ input_string = Str_LineComment => Out = Out_LineComment

\* A returned call whose input has a line comment that holds a carriage
\* return and a body character, and is ended by a newline with text after it.
LineCommentReplacement_Witness ==
    /\ Returned
    /\ \E t \in Range(Tokens(input_string)) :
           /\ t.tag = "line" /\ t.closed
           /\ t.last + 1 < Len(input_string)
           /\ \E i \in t.first..t.last : input_string[i] = "\r"

-----------------------------------------------------------------------------
\* The output for /*\nx\n*/.
Out_BlockLines == <<" ", " ", "\n", " ", "\n", " ", " ">>

\* C5. Every character of a terminated block comment (opening marker, body,
\* closing marker) is replaced by one space, except that each carriage
\* return and newline in it is emitted unchanged at its index; the scanner
\* is in DEFAULT after the closing marker; /*\nx\n*/ gives two spaces,
\* newline, space, newline, two spaces.
BlockCommentReplacement ==
    Returned =>
        /\ Len(Out) = Len(input_string)
        /\ \A t \in Range(Tokens(input_string)) :
               (t.tag = "block" /\ t.closed) =>
                   /\ \A i \in t.first..t.last : Out[i] = Blank(input_string[i])
                   /\ history[t.last] = "DEFAULT"
        /\ input_string = Str_BlockLines => Out = Out_BlockLines /\ state = "DEFAULT"

\* A returned call whose input has a terminated block comment over several
\* lines.
BlockCommentReplacement_Witness ==
    /\ Returned
    /\ \E t \in Range(Tokens(input_string)) :
           /\ t.tag = "block" /\ t.closed
           /\ \E i, j \in (t.first + 2)..(t.last - 2) :
                  input_string[i] = "\n" /\ ~IsLineBreak(input_string[j])

-----------------------------------------------------------------------------
Count(s, c) == Cardinality({i \in 1..Len(s) : s[i] = c})

\* C6. When the call returns, every carriage return and every newline of
\* the input is in the output unchanged at the same index, whatever the
\* scan state it was consumed in; so the output has as many newlines (and
\* carriage returns) as the input.
LineBreaksPreserved ==
    Returned =>
        /\ Len(Out) = Len(input_string)
        /\ \A i \in 1..Len(input_string) :
               IsLineBreak(input_string[i]) => Out[i] = input_string[i]
        /\ Count(Out, "\n") = Count(input_string, "\n")
        /\ Count(Out, "\r") = Count(input_string, "\r")

\* A returned call whose input has a line break consumed in each of the
\* scan states.
LineBreaksPreserved_Witness ==
    /\ Returned
    /\ \A st \in FsmState :
           \E i \in 1..Len(input_string) :
               IsLineBreak(input_string[i]) /\ StateBefore(i) = st

-----------------------------------------------------------------------------
\* The input holds neither // nor /* anywhere.
NoMarker(s) ==
    \A i \in 1..(Len(s) - 1) : ~(s[i] = "/" /\ s[i + 1] \in {"/", "*"})

\* C7. Identity on comment-free input: on an input that holds neither //
\* nor /* anywhere the call returns, without error, the input itself.
IdentityOnCommentFree ==
    (Finished /\ NoMarker(input_string)) => (Returned /\ Out = input_string)

\* A returned call on an input without comment markers that has a lone
\* slash between other characters and ends in a single slash.
IdentityOnCommentFree_Witness ==
    /\ Returned
    /\ NoMarker(input_string)
    /\ state = "COMMENT_INTRO"
    /\ \E i \in 2..(Len(input_string) - 2) : input_string[i] = "/"

-----------------------------------------------------------------------------
\* "\\"//x with the line comment after the string replaced.
Out_DoubledBackslash == <<"\"", "\\", "\\", "\"", " ", " ", " ">>

\* C8. Inside a string a quote directly after an escaping backslash does
\* not end the string: the scanner goes STRING -> STRING_BACKSLASH ->
\* STRING and emits both characters unchanged; it stays inside the string
\* up to the next quote that no backslash escapes; a doubled backslash
\* followed by a quote ends the string.  "a\"b" and "\"//" map to
\* themselves.
EscapedQuote ==
    Finished =>
        /\ Len(output) = Len(input_string)
        /\ \A i \in 1..(Len(input_string) - 1) :
               (StateBefore(i) = "STRING" /\ input_string[i] = "\\") =>
                   /\ history[i] = "STRING_BACKSLASH"
                   /\ history[i + 1] = "STRING"
                   /\ output[i] = input_string[i]
                   /\ output[i + 1] = input_string[i + 1]
                   /\ (input_string[i + 1] = "\\" /\ i + 2 <= Len(input_string)
                       /\ input_string[i + 2] = "\"") => history[i + 2] = "DEFAULT"
        /\ \A t \in Range(Tokens(input_string)) :
               t.tag = "string" =>
                   /\ \A i \in t.first..(t.last - 1) :
                          history[i] \in {"STRING", "STRING_BACKSLASH"}
                   /\ t.closed => history[t.last] = "DEFAULT"
                   /\ \A i \in t.first..t.last : output[i] = input_string[i]
        /\ input_string \in {Str_EscapedQuote, Str_EscapedThenSlashes} =>
               Returned /\ Out = input_string
        /\ input_string = Str_DoubledBackslash =>
               Returned /\ Out = Out_DoubledBackslash

\* A returned call whose input has a closed string with an escaped quote
\* and, between it and the closing quote, a //.
EscapedQuote_Witness ==
    /\ Returned
    /\ \E t \in Range(Tokens(input_string)) :
           /\ t.tag = "string" /\ t.closed
           /\ \E i \in (t.first + 1)..(t.last - 4) :
                  /\ StateBefore(i) = "STRING"
                  /\ input_string[i] = "\\" /\ input_string[i + 1] = "\""
                  /\ \E j \in (i + 2)..(t.last - 2) :
                         input_string[j] = "/" /\ input_string[j + 1] = "/"

-----------------------------------------------------------------------------
\* The input ends in a single slash that is ordinary content: outside any
\* string and comment, part of no comment marker.
DanglingSlash(s) ==
    /\ Len(s) >= 1
    /\ s[Len(s)] = "/"
    /\ LET toks == Tokens(s)
           t == toks[Len(toks)]
       IN  t.tag = "code" /\ t.first = Len(s)

\* C9. The scan ends in COMMENT_INTRO exactly when the input ends in a
\* dangling slash; the call then raises no error and its output ends with
\* that slash, at the index it has in the input.
DanglingSlashKept ==
    Finished =>
        /\ DanglingSlash(input_string) <=> state = "COMMENT_INTRO"
        /\ state = "COMMENT_INTRO" =>
               /\ Returned
               /\ Len(Out) = Len(input_string)
               /\ Out[Len(input_string)] = "/"

\* The call returned on {"a":1}/ .
DanglingSlashKept_Witness ==
    Returned /\ state = "COMMENT_INTRO" /\ input_string = Str_TrailingSlash

-----------------------------------------------------------------------------
InString(s) == s \in {"STRING", "STRING_BACKSLASH"}

\* C10. A scan that ends in STRING or STRING_BACKSLASH does not raise: the
\* code after the loop returns the accumulated output with nothing
\* appended; the unterminated string is in it unchanged, also when it
\* holds /* ("abc /* is returned as it is).
UnterminatedStringReturned ==
    /\ [][(pc = "scan" /\ pos = Len(input_string) /\ InString(state)) =>
              (pc' = "returned" /\ result' = <<"value", output>> /\ output' = output)]_vars
    /\ [](Finished =>
              /\ InString(state) =>
                     /\ Returned
                     /\ \E t \in Range(Tokens(input_string)) :
                            /\ t.tag = "string" /\ ~t.closed
                            /\ Len(Out) = Len(input_string)
                            /\ \A i \in t.first..t.last : Out[i] = input_string[i]
              /\ input_string = Str_StringWithBlockOpen =>
                     Returned /\ Out = input_string)

\* The call returned on "abc /* , the scan having ended in STRING.
UnterminatedStringReturned_Witness ==
    Returned /\ state = "STRING" /\ input_string = Str_StringWithBlockOpen

-----------------------------------------------------------------------------
\* C11. Idempotence: when the function returned y for x, the call on y
\* returns too, and returns y.
Idempotence ==
    (call = 2 /\ Finished) => (Returned /\ result = previous[2])

\* A second call that returned, the first one having replaced a comment
\* in an input that also holds a closed string.
Idempotence_Witness ==
    /\ call = 2
    /\ Returned
    /\ previous[1] # Out
    /\ \E t \in Range(Tokens(Out)) : t.tag = "string" /\ t.closed

-----------------------------------------------------------------------------
\* C12. parse_json_with_comments runs the scanner first; when the scanner
\* raises, json.loads is never called and the scanner's
\* JSONWithCommentsError reaches the caller; when it returns, json.loads is
\* called exactly once, on the returned string, its value is handed on
\* unchanged, and its syntax error reaches the caller as a
\* JSONWithCommentsError "Comment removal did not yield valid JSON." with
\* the parser's error as its cause.  Every failure the caller sees is a
\* JSONWithCommentsError.
WrapperTaxonomy ==
    /\ pc = "scan" => (parser_calls = <<>> /\ caller = <<"none">>)
    /\ Raised =>
           /\ parser_calls = <<>>
           /\ caller \in {<<"none">>,
                          <<"error", "JSONWithCommentsError",
                            "Unterminated block comment.", "none">>}
    /\ Returned =>
           /\ parser_calls \in {<<>>, <<Out>>}
           /\ caller = <<"none">> <=> parser_calls = <<>>
           /\ caller \in {<<"none">>,
                          <<"value", JsonValue(Out)>>,
                          <<"error", "JSONWithCommentsError",
                            "Comment removal did not yield valid JSON.",
                            "JSONDecodeError">>}
    /\ caller[1] = "error" => caller[2] = "JSONWithCommentsError"

\* The caller got the wrapped parser error for an input whose comment the
\* scanner had replaced.
WrapperTaxonomy_Witness ==
    /\ Returned
    /\ caller[1] = "error"
    /\ caller[4] = "JSONDecodeError"
    /\ Out # input_string

-----------------------------------------------------------------------------
\* C13. The comment function of module json_with_comments turns the test's
\* document into text without its # comments: the leading # line, the #
\* comment after "value", and the final # line are removed up to their
\* newlines (replaced by spaces, or deleted), and the rest of the document,
\* all its string literals among it, is in the result unchanged.  No string
\* of the document holds a #.
Spaces(comment) == [i \in 1..Len(comment) |-> Blank(comment[i])]

Gone(comment) == <<"\n">>

StressTest_Without(Removed(_)) ==
    Removed(StressTest_Line1) \o StressTest_Line2
    \o StressTest_Line3_Value \o Removed(StressTest_Line3_Comment)
    \o StressTest_Line4 \o StressTest_Line5 \o StressTest_Line6
    \o StressTest_Line7 \o StressTest_Line8 \o Removed(StressTest_Line9)

HashCommentsRemoved ==
    (Finished /\ input_string = Str_StressTest) =>
        /\ Returned
        /\ Out \in {StressTest_Without(Spaces), StressTest_Without(Gone)}

-----------------------------------------------------------------------------
\* C14. The lookup is total: the table has 22 entries, one of them
\* (state, OTHER) for each of the seven states; for each of the 49 pairs of
\* a state and a character class the lookup with fallback finds an entry,
\* an (action, next state); so it does for the character read in every
\* reachable state of the scan; and every character other than / \ " CR LF
\* * is classified OTHER.
SpecialCharacters == {"/", "\\", "\"", "\r", "\n", "*"}

\* The characters of the inputs of SpecTest.
CharactersSeen ==
    Alphabet \cup {"#"} \cup Range(Str_StressTest)

Defined(s, c) ==
    /\ <<s, LookupClass(s, c)>> \in DOMAIN fsm_definition
    /\ Lookup(s, c) \in FsmAction \X FsmState

LookupTotal ==
    /\ Cardinality(DOMAIN fsm_definition) = 22
    /\ DOMAIN fsm_definition \subseteq FsmState \X CharacterClass
    /\ Cardinality(FsmState \X CharacterClass) = 49
    /\ \A s \in FsmState : <<s, "OTHER">> \in DOMAIN fsm_definition
    /\ \A s \in FsmState : \A class \in CharacterClass :
           \E c \in CharactersSeen : Classify(c) = class /\ Defined(s, c)
    /\ \A s \in FsmState : \A c \in CharactersSeen : Defined(s, c)
    /\ \A c \in CharactersSeen \ SpecialCharacters : Classify(c) = "OTHER"
    /\ DOMAIN character_classifications = SpecialCharacters
    /\ (pc = "scan" /\ pos < Len(input_string)) =>
           Defined(state, input_string[pos + 1])
    /\ \A i \in 1..pos : Defined(StateBefore(i), input_string[i])

\* The scan has read, inside a string, a special character whose
\* (state, class) pair the table does not list, and then a # , which the
\* classifier does not list.
LookupTotal_Witness ==
    \E i \in 1..pos :
        /\ StateBefore(i) = "STRING"
        /\ input_string[i] \in SpecialCharacters
        /\ <<"STRING", Classify(input_string[i])>> \notin DOMAIN fsm_definition
        /\ i < pos
        /\ input_string[i + 1] = "#"

-----------------------------------------------------------------------------
\* C15. Two invocations interleaved step by step in any order: at every
\* moment each one's state and output are what that invocation alone has
\* after the characters it has consumed, and each returns or raises
\* exactly as it does when run alone.
ConcurrentIndependence ==
    /\ pc = "scan" => <<state, output>> = ScanState(input_string, pos)
    /\ Finished => result = RunAlone(input_string)
    /\ other_pc = "scan" =>
           <<other_state, other_output>> = ScanState(other_input, other_pos)
    /\ other_pc \in {"returned", "raised"} =>
           other_result = RunAlone(other_input)

\* Both invocations are in the middle of their inputs, one inside a string
\* and the other inside a block comment.
ConcurrentIndependence_Witness ==
    /\ pc = "scan" /\ 0 < pos /\ pos < Len(input_string)
    /\ other_pc = "scan" /\ 0 < other_pos /\ other_pos < Len(other_input)
    /\ state = "STRING"
    /\ other_state = "BLOCK_COMMENT"
    /\ input_string # other_input

-----------------------------------------------------------------------------
\* C16. Block comments do not nest, and the opener's asterisk closes
\* nothing: a block comment opened by /* at i ends at the first */ whose *
\* is at i + 2 or later, whatever lies between, a /* included; without
\* such a */ the call raises.  /*/ raises; /**/ and /***/ are whole
\* comments that end in DEFAULT; in /* /* */ */ the text after the first
\* */ is ordinary content and its " */" is returned unchanged.
BlockOpener(i) ==
    /\ i < Len(input_string)
    /\ StateBefore(i) = "DEFAULT"
    /\ input_string[i] = "/"
    /\ input_string[i + 1] = "*"

\* The positions of the / of every */ that can close the comment opened at i.
Closers(i) ==
    {j \in (i + 3)..Len(input_string) :
        input_string[j - 1] = "*" /\ input_string[j] = "/"}

FirstCloser(i) == CHOOSE j \in Closers(i) : \A k \in Closers(i) : j <= k

InBlock(s) == s \in {"BLOCK_COMMENT", "BLOCK_COMMENT_STAR"}

Out_NestedBlock == <<" ", " ", " ", " ", " ", " ", " ", " ", " ", "*", "/">>

NoNesting ==
    Finished =>
        /\ \A i \in 1..Len(input_string) :
               BlockOpener(i) =>
                   IF Closers(i) = {}
                   THEN /\ Raised
                        /\ \A k \in (i + 1)..Len(input_string) : InBlock(history[k])
                   ELSE /\ \A k \in (i + 1)..(FirstCloser(i) - 1) : InBlock(history[k])
                        /\ history[FirstCloser(i)] = "DEFAULT"
        /\ input_string = <<"/", "*", "/">> => Raised
        /\ input_string = <<"/", "*", "*", "/">> =>
               Returned /\ state = "DEFAULT" /\ Out = <<" ", " ", " ", " ">>
        /\ input_string = <<"/", "*", "*", "*", "/">> =>
               Returned /\ state = "DEFAULT" /\ Out = <<" ", " ", " ", " ", " ">>
        /\ input_string = Str_NestedBlock => Returned /\ Out = Out_NestedBlock

\* A returned call whose input has a /* inside a block comment, and text
\* after that comment's */.
NoNesting_Witness ==
    /\ Returned
    /\ \E i \in 1..Len(input_string) :
           /\ BlockOpener(i)
           /\ Closers(i) # {}
           /\ FirstCloser(i) < Len(input_string)
           /\ \E k \in (i + 2)..(FirstCloser(i) - 3) :
                  input_string[k] = "/" /\ input_string[k + 1] = "*"

-----------------------------------------------------------------------------
\* C17. Only a newline ends a line comment: a character read in
\* LINE_COMMENT leaves the scanner in LINE_COMMENT unless it is LF, which
\* leads to DEFAULT; CR and LF are emitted unchanged and every other
\* character as a space.  In //a CR b LF c the b after the bare CR is
\* still replaced by a space and ordinary scanning resumes at c.
Out_BareCR == <<" ", " ", " ", "\r", " ", "\n", "c">>

OnlyNewlineEndsLineComment ==
    /\ \A i \in 1..pos :
           StateBefore(i) = "LINE_COMMENT" =>
               /\ history[i] = IF input_string[i] = "\n" THEN "DEFAULT"
                               ELSE "LINE_COMMENT"
               /\ Len(output) >= i
               /\ output[i] = Blank(input_string[i])
    /\ (Finished /\ input_string = Str_BareCR) =>
           /\ Returned
           /\ Out = Out_BareCR
           /\ history[4] = "LINE_COMMENT"
           /\ history[6] = "DEFAULT"

\* A returned call that read, in a line comment, a CR and then a character
\* that is no line break, and after the comment's LF one more character.
OnlyNewlineEndsLineComment_Witness ==
    /\ Returned
    /\ \E i \in 1..(Len(input_string) - 3) :
           /\ StateBefore(i) = "LINE_COMMENT"
           /\ input_string[i] = "\r"
           /\ ~IsLineBreak(input_string[i + 1])
           /\ Out[i + 1] = " "
           /\ input_string[i + 2] = "\n"
           /\ Out[i + 3] = input_string[i + 3]
           /\ Out[i + 3] # " "

-----------------------------------------------------------------------------
\* C18. What a comment contains has no effect on the scanning after it: a
\* line comment, delimited in the text by // and the next newline, keeps
\* the scanner in LINE_COMMENT up to that newline whatever it holds (a
\* quote, a /*, a backslash before the newline), and a block comment,
\* delimited by /* and the next */, keeps it in the block-comment states
\* (a quote, a // before the */); the state right after a terminated
\* comment is DEFAULT.
Out_InertContent == <<" ", " ", " ", " ", " ", " ", "\n",
                      " ", " ", " ", " ", " ", " ", " ", "x">>

CommentsInert ==
    Finished =>
        /\ \A t \in Range(Tokens(input_string)) :
               /\ t.tag = "line" =>
                      /\ \A k \in (t.first + 1)..t.last : history[k] = "LINE_COMMENT"
                      /\ t.closed => history[t.last + 1] = "DEFAULT"
               /\ t.tag = "block" =>
                      /\ \A k \in (t.first + 1)..(t.last - 1) : InBlock(history[k])
                      /\ history[t.last] = "DEFAULT" <=> t.closed
                      /\ InBlock(history[t.last]) <=> ~t.closed
        /\ input_string = Str_InertContent =>
               Returned /\ Out = Out_InertContent /\ history[14] = "DEFAULT"

\* A returned call that read a quote, a /* and a backslash just before the
\* newline in a line comment, and a quote and a // in a block comment, with
\* a character after it.
CommentsInert_Witness ==
    /\ Returned
    /\ \E i, j, k \in 1..(Len(input_string) - 1) :
           /\ StateBefore(i) = "LINE_COMMENT" /\ input_string[i] = "\""
           /\ StateBefore(j) = "LINE_COMMENT" /\ input_string[j] = "/"
           /\ StateBefore(j + 1) = "LINE_COMMENT" /\ input_string[j + 1] = "*"
           /\ StateBefore(k) = "LINE_COMMENT" /\ input_string[k] = "\\"
           /\ input_string[k + 1] = "\n"
    /\ \E i, j \in 1..(Len(input_string) - 1) :
           /\ StateBefore(i) = "BLOCK_COMMENT" /\ input_string[i] = "\""
           /\ StateBefore(j) = "BLOCK_COMMENT" /\ input_string[j] = "/"
           /\ input_string[j + 1] = "/"
    /\ state = "DEFAULT"
    /\ Out[Len(Out)] = "x"

-----------------------------------------------------------------------------
\* C19. The running length of the output: after k characters the output
\* list holds k characters, or k - 1 when the state is COMMENT_INTRO.
\* EMIT_NOTHING is applied only on entering COMMENT_INTRO and the actions
\* that append two characters only on leaving it, each appending that
\* many, so the character held back is made up for by the next character
\* or by the code after the loop.
TwoCharacterActions == {"EMIT_TWO_SPACES", "EMIT_FSLASH_THEN_CURRENT"}

ActionAt(i) == Lookup(StateBefore(i), input_string[i])[1]

RunningLength ==
    /\ pc = "scan" =>
           Len(output) = IF state = "COMMENT_INTRO" THEN pos - 1 ELSE pos
    /\ Raised => Len(output) = pos /\ state # "COMMENT_INTRO"
    /\ Returned => Len(output) = Len(input_string)
    /\ \A i \in 1..pos :
           /\ ActionAt(i) = "EMIT_NOTHING" <=>
                  (StateBefore(i) # "COMMENT_INTRO" /\ history[i] = "COMMENT_INTRO")
           /\ ActionAt(i) \in TwoCharacterActions <=>
                  (StateBefore(i) = "COMMENT_INTRO" /\ history[i] # "COMMENT_INTRO")
           /\ StateBefore(i) = "COMMENT_INTRO" => history[i] # "COMMENT_INTRO"
    /\ (pc = "scan" /\ pos < Len(input_string)) =>
           LET c == input_string[pos + 1]
               action == Lookup(state, c)[1]
           IN  Len(Emit(action, c)) =
                   CASE action = "EMIT_NOTHING" -> 0
                     [] action \in TwoCharacterActions -> 2
                     [] OTHER -> 1

\* The scan holds back a slash that more input follows, after a comment
\* marker and a lone slash earlier in the input.
RunningLength_Witness ==
    /\ pc = "scan"
    /\ state = "COMMENT_INTRO"
    /\ Len(output) = pos - 1
    /\ pos < Len(input_string)
    /\ \E i, j \in 1..pos :
           /\ ActionAt(i) = "EMIT_TWO_SPACES"
           /\ ActionAt(j) = "EMIT_FSLASH_THEN_CURRENT"

-----------------------------------------------------------------------------
\* C20. The 22-entry table with its fallback and the variant's 49-entry
\* table are the same automaton, with DEFAULT for START and COMMENT_INTRO
\* for MAYBE_COMMENT: run on the same input, the two scanners are in
\* corresponding states after every character, the variant appends the
\* current character (or / and the current character) exactly when the
\* function does, and nothing exactly when the function appends spaces or
\* nothing; and the same inputs make both raise.
Corresponding(s) ==
    CASE s = "DEFAULT"       -> "START"
      [] s = "COMMENT_INTRO" -> "MAYBE_COMMENT"
      [] OTHER               -> s

Variant_StateBefore(i) == IF i = 1 THEN "START" ELSE v_history[i - 1]

\* The two lookups agree for state s and character c.
SameEntry(s, c) ==
    LET entry == Lookup(s, c)
        v_entry == Variant_Lookup(Corresponding(s), c)
    IN  /\ v_entry[2] = Corresponding(entry[2])
        /\ v_entry[1] =
               IF entry[1] \in {"EMIT_CURRENT", "EMIT_FSLASH_THEN_CURRENT"}
               THEN entry[1]
               ELSE "EMIT_NOTHING"
        /\ Variant_Emit(v_entry[1], c) =
               IF entry[1] \in {"EMIT_CURRENT", "EMIT_FSLASH_THEN_CURRENT"}
               THEN Emit(entry[1], c)
               ELSE <<>>

\* The tables compared entry by entry, once, before the scanners start.
TablesEquivalent ==
    /\ (pos = 0 /\ v_pos = 0) =>
           /\ Cardinality(DOMAIN Variant_fsm_definition) = 49
           /\ {Corresponding(s) : s \in FsmState} = Variant_FsmState
           /\ \A s \in FsmState : \A c \in Alphabet : SameEntry(s, c)
    /\ \A i \in 1..Min(pos, v_pos) :
           /\ v_history[i] = Corresponding(history[i])
           /\ Variant_StateBefore(i) = Corresponding(StateBefore(i))
           /\ SameEntry(StateBefore(i), input_string[i])
    /\ pos = v_pos => v_state = Corresponding(state)
    /\ (Finished /\ v_pc # "scan") => (Raised <=> v_pc = "raised")

\* Both scanners finished an input with a comment marker and with a quote
\* directly after a lone slash, and the variant returned a shorter string.
TablesEquivalent_Witness ==
    /\ Returned
    /\ v_pc = "returned"
    /\ Len(v_result[2]) < Len(Out)
    /\ \E i, j \in 1..Len(input_string) :
           /\ ActionAt(i) = "EMIT_TWO_SPACES"
           /\ StateBefore(j) = "COMMENT_INTRO"
           /\ input_string[j] = "\""

-----------------------------------------------------------------------------
\* C21. The variant swallows a final lone slash: when its scan ends in
\* MAYBE_COMMENT it returns, without error, what it had emitted before that
\* slash, and no slash for it, while the function on the same input returns
\* a string that ends with the slash.  For {"a":1}/ the variant returns
\* {"a":1} and the function returns {"a":1}/ .
Out_ObjectThenSlash == <<"{", "\"", "a", "\"", ":", "1", "}">>

-----------------------------------------------------------------------------
\* C22. The variant's read_json_with_comments raises "Unterminated block
\* comment at end of file." only when the scan of the file's text ended
\* inside a block comment; a syntax error of the JSON parser on text the
\* scanner returned reaches the caller as a JSON syntax error.
VariantReadReportsTruly ==
    /\ (v_caller[1] = "error" /\ v_caller[3] = Variant_EndOfFileMessage) =>
           /\ v_pc = "raised"
           /\ Variant_Raises(v_state)
           /\ v_parser_calls = <<>>
    /\ (v_caller[1] = "error" /\ v_parser_calls # <<>>) =>
           v_caller[2] = "JSONDecodeError"

-----------------------------------------------------------------------------
\* C23. The scan is one pass that ends: it starts in DEFAULT before the
\* first character; each step of the loop consumes the next character, the
\* one at pos + 1, with one lookup for the state it is in and that
\* character, one state update and the lookup's emission, and pos only
\* ever grows by one; the code after the loop runs once, when all n
\* characters are consumed, and nothing changes after it; and every call
\* eventually ends, returned or raised, after exactly n steps.
OneStep ==
    /\ pos < Len(input_string)
    /\ pos' = pos + 1
    /\ state' = Lookup(state, input_string[pos + 1])[2]
    /\ history' = Append(history, state')
    /\ output' = output \o Emit(Lookup(state, input_string[pos + 1])[1],
                                input_string[pos + 1])
    /\ pc' = "scan"

OneFinal ==
    /\ pos = Len(input_string)
    /\ pc' \in {"returned", "raised"}
    /\ pc' = "raised" <=> Raises(state)
    /\ UNCHANGED <<pos, state, history>>

SinglePass ==
    /\ pc = "scan" /\ pos = 0 /\ state = "DEFAULT" /\ history = <<>>
    /\ [][/\ input_string' = input_string
          /\ IF pc = "scan" THEN OneStep \/ OneFinal ELSE UNCHANGED scan_vars]_vars
    /\ [](/\ pos <= Len(input_string)
          /\ Len(history) = pos
          /\ Finished => pos = Len(input_string))
    /\ <>(Finished /\ pos = Len(input_string) /\ Len(history) = Len(input_string))

\* The call on the test's document ended, after its 287 characters.
SinglePass_Witness ==
    /\ Finished
    /\ input_string = Str_StressTest
    /\ pos = Len(Str_StressTest)
    /\ Len(history) = Len(Str_StressTest)

====
